---- MODULE Spec2Model ----
(***************************************************************************)
(* A model of planningcenter_toolkit/cli.py: the three commands that load  *)
(* credentials (get people, get teams, clear team-position), the paginated *)
(* fetch loops they run, and the relationship flattening of fetch_people.  *)
(* One action is one network exchange together with the code that runs up  *)
(* to the next exchange; the upstream API is the environment and answers   *)
(* each request nondeterministically.                                      *)
(***************************************************************************)
EXTENDS Integers, Sequences, FiniteSets, TLC

VARIABLES
    cmd,              \* the command invoked
    config,           \* what the --config path holds
    limit,            \* --limit
    run,              \* 1: first invocation, 2: the replay of clear team-position
    pc,               \* position in the command
    exc,              \* the exception that ended the command uncaught, or None
    reqs,             \* every network request issued in this run, with its outcome
    out,              \* every line printed in this run
    page,             \* pages received by the paginated fetch in progress
    people_list,      \* fetch_people: people_list
    teams_list,       \* teams: teams_list
    results,          \* get_paginated_results: results
    service_type_id,  \* team_position: service_type_id
    team_position_id, \* team_position: team_position_id
    assignments,      \* team_position: assignments
    idx,              \* index of the for loop in progress (teams, deletes)
    srv,              \* upstream: the assignments the position holds
    prev,             \* what the first run did, kept for the replay
    fetched,          \* ids of the data arrays fetch_people / fetch_teams received
    person,           \* flatten: the primary record
    included,         \* flatten: the page's included array
    flat              \* flatten: the resulting person_info

vars == <<cmd, config, limit, run, pc, exc, reqs, out, page, people_list,
          teams_list, results, service_type_id, team_position_id, assignments,
          idx, srv, prev, fetched, person, included, flat>>

\* Python's None, where a string is expected.
None == "None"

Min(a, b) == IF a <= b THEN a ELSE b
Max(a, b) == IF a >= b THEN a ELSE b
Take(s, n) == SubSeq(s, 1, Min(Max(n, 0), Len(s)))
Last(s) == s[Len(s)]

\* ------------------------------------------------------------------ bounds
MaxPages == 2       \* pages in one chain of responses
PerPage == 2        \* records in one page of people
MaxLimit == 2       \* --limit ranges over -1 .. MaxLimit
MaxAssign == 3      \* assignments the upstream holds at the start
MaxIncluded == 2    \* records in the included array given to the flattening
MaxRefs == 2        \* relationship references of the person given to it

\* ---------------------------------------------------- relationship flattening

\* dict.get(k): the value, or None when the key is absent.
Attr(a, k) == IF k \in DOMAIN a THEN a[k] ELSE None

\* {item["id"]: item for item in data.get("included", [])}: keyed by id alone;
\* a later item replaces an earlier one with the same id.
IncludedData(inc) ==
    LET ids == {inc[i].id : i \in DOMAIN inc}
        last(x) == CHOOSE i \in DOMAIN inc :
                       /\ inc[i].id = x
                       /\ \A j \in DOMAIN inc : inc[j].id = x => j <= i
    IN  [x \in ids |-> inc[last(x)]]

\* A mutation of Lookup: an absent id yields an empty record instead of None.
Lookup_Default(d, id) ==
    IF id \in DOMAIN d THEN <<d[id]>>
    ELSE <<[id |-> id, type |-> "", attributes |-> [unknown |-> None]]>>

\* included_data.get(id): <<record>>, or <<>> for None.
Lookup(d, id) == IF id \in DOMAIN d THEN <<d[id]>> ELSE <<>>

\* person_info before the relationships are read (the attribute copies of
\* lines 55-74 are all of the one shape attributes.get(name); first_name
\* stands for them).
PersonInfo(p) ==
    [id |-> p.id, first_name |-> Attr(p.attributes, "first_name"),
     household_count |-> 0,
     home_street |-> None, home_city |-> None, home_state |-> None, home_zip |-> None,
     work_street |-> None, work_city |-> None, work_state |-> None, work_zip |-> None,
     phone_numbers |-> <<>>, emails |-> <<>>, exc |-> None]

Raise(info, e) == [info EXCEPT !.exc = e]

PhoneStep(info, d, ref) ==
    LET phone == Lookup(d, ref.id) IN
    IF phone = <<>> THEN info
    ELSE IF "number" \in DOMAIN phone[1].attributes
         THEN [info EXCEPT !.phone_numbers = Append(@, phone[1].attributes.number)]
         ELSE Raise(info, "KeyError")

EmailStep(info, d, ref) ==
    LET email == Lookup(d, ref.id) IN
    IF email = <<>> THEN info
    ELSE IF "address" \in DOMAIN email[1].attributes
         THEN [info EXCEPT !.emails = Append(@, email[1].attributes.address)]
         ELSE Raise(info, "KeyError")

\* A mutation of SetHome: a field the address lacks keeps its earlier value.
SetHome_Inherit(info, a) ==
    [info EXCEPT !.home_street = IF "street" \in DOMAIN a THEN a.street ELSE @,
                 !.home_city = IF "city" \in DOMAIN a THEN a.city ELSE @,
                 !.home_state = IF "state" \in DOMAIN a THEN a.state ELSE @,
                 !.home_zip = IF "zip" \in DOMAIN a THEN a.zip ELSE @]

SetHome(info, a) ==
    [info EXCEPT !.home_street = Attr(a, "street"), !.home_city = Attr(a, "city"),
                 !.home_state = Attr(a, "state"), !.home_zip = Attr(a, "zip")]

SetWork(info, a) ==
    [info EXCEPT !.work_street = Attr(a, "street"), !.work_city = Attr(a, "city"),
                 !.work_state = Attr(a, "state"), !.work_zip = Attr(a, "zip")]

AddressStep(info, d, ref) ==
    LET address == Lookup(d, ref.id) IN
    IF address = <<>> THEN info
    ELSE IF "location" \notin DOMAIN address[1].attributes THEN Raise(info, "KeyError")
    ELSE IF address[1].attributes.location = "Home" THEN SetHome(info, address[1].attributes)
    ELSE IF address[1].attributes.location = "Work" THEN SetWork(info, address[1].attributes)
    ELSE info

HouseholdStep(info, d, ref) ==
    LET household_data == Lookup(d, ref.id) IN
    IF household_data # <<>> /\ household_data[1].type = "Household"
    THEN [info EXCEPT !.household_count =
              @ + (IF "member_count" \in DOMAIN household_data[1].attributes
                   THEN household_data[1].attributes.member_count ELSE 0)]
    ELSE info

\* The branch of the if/elif chain on rel_type; any other relationship is ignored.
RelStep(info, d, rel_type, ref) ==
    IF rel_type = "phone_numbers" THEN PhoneStep(info, d, ref)
    ELSE IF rel_type = "emails" THEN EmailStep(info, d, ref)
    ELSE IF rel_type = "addresses" THEN AddressStep(info, d, ref)
    ELSE IF rel_type = "households" THEN HouseholdStep(info, d, ref)
    ELSE info

\* for ref in rel_data["data"]: an exception ends the loop.
RECURSIVE RefLoop(_, _, _, _)
RefLoop(info, d, rel_type, refs) ==
    IF refs = <<>> \/ info.exc # None THEN info
    ELSE RefLoop(RelStep(info, d, rel_type, Head(refs)), d, rel_type, Tail(refs))

\* for rel_type, rel_data in person.get("relationships", {}).items()
RECURSIVE RelLoop(_, _, _)
RelLoop(info, d, rels) ==
    IF rels = <<>> \/ info.exc # None THEN info
    ELSE RelLoop(RefLoop(info, d, Head(rels).rel_type, Head(rels).data), d, Tail(rels))

\* The body of the loop over data["data"]: one person flattened against the
\* included array of the page it came in.
Flatten(p, inc) == RelLoop(PersonInfo(p), IncludedData(inc), p.relationships)

\* ------------------------------------------------- inputs of the flattening

RefIds == {"1", "2"}

Ref(id, type) == [id |-> id, type |-> type]

Numbers == ("1" :> "555-0001") @@ ("2" :> "555-0002")

Phone(id) == [id |-> id, type |-> "PhoneNumber", attributes |-> [number |-> Numbers[id]]]
Email(id) == [id |-> id, type |-> "Email", attributes |-> [address |-> "a@example.org"]]
HomeFull(id) ==
    [id |-> id, type |-> "Address",
     attributes |-> [location |-> "Home", street |-> "1 Elm St", city |-> "Salem",
                     state |-> "OR", zip |-> "97301"]]
HomeBare(id) ==
    [id |-> id, type |-> "Address",
     attributes |-> [location |-> "Home", street |-> "2 Oak Ave"]]
WorkFull(id) ==
    [id |-> id, type |-> "Address",
     attributes |-> [location |-> "Work", street |-> "3 Main St", city |-> "Bend",
                     state |-> "OR", zip |-> "97701"]]
WorkBare(id) ==
    [id |-> id, type |-> "Address",
     attributes |-> [location |-> "Work", zip |-> "97702"]]
Household(id, n) == [id |-> id, type |-> "Household", attributes |-> [member_count |-> n]]
HouseholdBare(id) == [id |-> id, type |-> "Household", attributes |-> [name |-> "Smith"]]

IncludedPool ==
    {Phone("1"), Phone("2"), Email("1"), HomeFull("1"), HomeBare("2"),
     WorkFull("2"), WorkBare("1"), Household("1", 3), Household("2", 4),
     HouseholdBare("1")}

SeqsUpTo(S, n) == UNION {[1..k -> S] : k \in 0..n}

RefSeqs(type) == {[i \in DOMAIN ids |-> Ref(ids[i], type)] : ids \in SeqsUpTo(RefIds, MaxRefs)}

Rel(rel_type, data) == [rel_type |-> rel_type, data |-> data]

MkPerson(id, first_name, ph, em, ad, ho) ==
    [id |-> id, attributes |-> [first_name |-> first_name],
     relationships |-> <<Rel("phone_numbers", ph), Rel("emails", em),
                         Rel("addresses", ad), Rel("households", ho)>>]

NoPerson == [id |-> None, attributes |-> [first_name |-> None], relationships |-> <<>>]

\* ------------------------------------------------------------ the upstream

Ok == 200
NoContent == 204
ServerError == 500
NoResponse == 0        \* requests raised ConnectionError: there is no status

service_type_name == "English Worship Service"
team_position_name == "Drums"

Rec(id, name) == [id |-> id, name |-> name]

ServiceTypePages ==
    {<<>>, <<Rec("st1", service_type_name)>>, <<Rec("st2", "english worship service")>>,
     <<Rec("st2", "english worship service"), Rec("st3", service_type_name)>>}

TeamPositionPages ==
    {<<>>, <<Rec("tp1", team_position_name)>>, <<Rec("tp2", "Drums 2")>>,
     <<Rec("tp2", "Drums 2"), Rec("tp3", team_position_name)>>}

AssignmentIds == <<"a1", "a2", "a3", "a4", "a5">>

TeamPool == {Rec("t1", "Band"), Rec("t2", "Tech")}
MemberPages == {<<>>, <<Rec("m1", "Ann")>>, <<Rec("m1", "Ann"), Rec("m2", "Bo")>>}

PersonPool ==
    {MkPerson("p1", "Ann", <<Ref("1", "PhoneNumber")>>, <<>>, <<>>, <<>>),
     MkPerson("p2", "Bo", <<>>, <<>>, <<Ref("2", "Address")>>, <<>>)}
IncludedChoices == {<<Phone("1"), HomeBare("2")>>, <<Email("1")>>}

\* The links object of a page: absent, without a next key, next null, next a URL.
LastLinks == {"absent", "no_next", "null"}
Links(more) == IF more THEN LastLinks \cup {"next"} ELSE LastLinks

Ids(rs) == [i \in DOMAIN rs |-> rs[i].id]

\* ------------------------------------------------------------ the commands

Msg(kind, id) == [kind |-> kind, id |-> id]
Req(m, target, st, tp, id, status) ==
    [m |-> m, target |-> target, st |-> st, tp |-> tp, id |-> id, status |-> status]

Configs == {"missing", "empty", "no_client_id", "no_client_secret", "ok"}

\* A mutation of load_authentication: client_secret is not checked.
load_authentication_NoSecretCheck(c) ==
    IF c = "missing" THEN "FileNotFoundError"
    ELSE IF c = "empty" THEN "AttributeError"
    ELSE IF c = "no_client_id" THEN "ValueError"
    ELSE None

\* The exception load_authentication raises, or None when it returns the pair.
\* An empty file loads as None, and None.get raises AttributeError.
load_authentication(c) ==
    IF c = "missing" THEN "FileNotFoundError"
    ELSE IF c = "empty" THEN "AttributeError"
    ELSE IF c \in {"no_client_id", "no_client_secret"} THEN "ValueError"
    ELSE None

\* The except clause of people that catches the exception.
PeopleHandler(e) ==
    IF e = "FileNotFoundError" THEN "error_config_missing"
    ELSE IF e = "ValueError" THEN "error_config_invalid"
    ELSE IF e \in {"ConnectionError", "HTTPError"} THEN "error_request"
    ELSE "error_unexpected"

\* What a failed request raises: requests.get itself, or raise_for_status.
RequestError(status) == IF status = NoResponse THEN "ConnectionError" ELSE "HTTPError"

\* prev before any run has ended: completed (the run reached its closing line),
\* clean (and every GET and DELETE of assignments answered 200 and 204),
\* removed (the number of DELETEs answered 204).
NoRun == [completed |-> FALSE, clean |-> FALSE, removed |-> 0]

Init ==
    /\ cmd \in {"people", "teams", "team_position"}
    /\ config \in Configs
    /\ limit \in IF cmd = "team_position" THEN {0} ELSE -1..MaxLimit
    /\ srv \in IF cmd = "team_position"
               THEN {Take(AssignmentIds, k) : k \in 0..MaxAssign} ELSE {<<>>}
    /\ run = 1
    /\ pc = "start"
    /\ exc = None
    /\ reqs = <<>>
    /\ out = <<>>
    /\ page = 0
    /\ people_list = <<>>
    /\ teams_list = <<>>
    /\ results = <<>>
    /\ service_type_id = None
    /\ team_position_id = None
    /\ assignments = <<>>
    /\ idx = 0
    /\ prev = NoRun
    /\ fetched = <<>>
    /\ person = NoPerson
    /\ included = <<>>
    /\ flat = PersonInfo(NoPerson)

flattenVars == <<person, included, flat>>
replayVars == <<run, prev>>
argVars == <<cmd, config, limit>>
clearVars == <<results, service_type_id, team_position_id, assignments, srv>>

\* The first statement of each command: load_authentication(config).
Start ==
    /\ pc = "start"
    /\ cmd \in {"people", "teams", "team_position"}
    /\ LET e == load_authentication(config) IN
       IF e = None
       THEN /\ pc' = (IF cmd = "people" THEN "people_fetch"
                      ELSE IF cmd = "teams" THEN "teams_fetch" ELSE "st_fetch")
            /\ UNCHANGED <<exc, out>>
       ELSE IF cmd = "team_position"
       THEN /\ pc' = "raised"          \* team_position has no try
            /\ exc' = e
            /\ out' = out
       ELSE /\ pc' = "done"
            /\ exc' = exc
            /\ out' = Append(out, Msg(IF cmd = "people" THEN PeopleHandler(e)
                                      ELSE "error_teams", None))
    /\ UNCHANGED <<argVars, replayVars, clearVars, flattenVars, reqs, page,
                   people_list, teams_list, idx, fetched>>

\* len(people_list) >= limit
LimitReached(list) == Len(list) >= limit

\* One pass of the while loop of fetch_people: the GET, the loop over the page,
\* and the two exits; an exception goes to the except clauses of people.
PeopleGet ==
    /\ cmd = "people"
    /\ pc = "people_fetch"
    /\ \E status \in {Ok, ServerError, NoResponse},
          data \in SeqsUpTo(PersonPool, PerPage),
          inc \in IncludedChoices,
          links \in Links(page + 1 < MaxPages) :
        /\ reqs' = Append(reqs, Req("GET", "people", None, None, None, status))
        /\ IF status # Ok
           THEN /\ data = <<>> /\ inc = <<Email("1")>> /\ links = "null"
                /\ out' = Append(out, Msg(PeopleHandler(RequestError(status)), None))
                /\ pc' = "done"
                /\ UNCHANGED <<people_list, page, fetched>>
           ELSE LET k == Min(Len(data), Max(0, limit - Len(people_list)))
                    infos == [i \in 1..k |-> Flatten(data[i], inc)]
                    list == people_list \o infos
                IN  /\ fetched' = fetched \o Ids(data)
                    /\ IF \E i \in 1..k : infos[i].exc # None
                       THEN /\ out' = Append(out, Msg(PeopleHandler("KeyError"), None))
                            /\ pc' = "done"
                            /\ UNCHANGED <<people_list, page>>
                       ELSE /\ people_list' = list
                            /\ out' = out
                            /\ IF LimitReached(list) \/ links # "next"
                               THEN pc' = "people_print" /\ page' = page
                               ELSE pc' = pc /\ page' = page + 1
    /\ UNCHANGED <<argVars, replayVars, clearVars, flattenVars, exc, teams_list, idx>>

\* people, after fetch_people returned: the header, then one row per person.
PeoplePrint ==
    /\ cmd = "people"
    /\ pc = "people_print"
    /\ out' = out \o <<Msg("header", None)>>
                  \o [i \in DOMAIN people_list |-> Msg("row", people_list[i].id)]
    /\ pc' = "done"
    /\ UNCHANGED <<argVars, replayVars, clearVars, flattenVars, exc, reqs, page,
                   people_list, teams_list, idx, fetched>>

\* list[:limit]: a negative limit counts from the end.
SliceTo(s, n) == IF n >= 0 THEN Take(s, n) ELSE Take(s, Len(s) + n)

\* fetch_teams and, when it returns, the header line of teams.
TeamsGet ==
    /\ cmd = "teams"
    /\ pc = "teams_fetch"
    /\ \E status \in {Ok, ServerError, NoResponse}, data \in SeqsUpTo(TeamPool, PerPage) :
        /\ reqs' = Append(reqs, Req("GET", "teams", None, None, None, status))
        /\ IF status # Ok
           THEN /\ data = <<>>
                /\ out' = Append(out, Msg("error_teams", None))
                /\ pc' = "done"
                /\ UNCHANGED <<teams_list, idx, fetched>>
           ELSE /\ fetched' = fetched \o Ids(data)
                /\ teams_list' = SliceTo(data, limit)
                /\ out' = Append(out, Msg("header", None))
                /\ idx' = 1
                /\ pc' = IF teams_list' = <<>> THEN "done" ELSE "teams_people"
    /\ UNCHANGED <<argVars, replayVars, clearVars, flattenVars, exc, page, people_list>>

\* One pass of the loop over teams_list: fetch_people_in_team, then its rows.
TeamPeopleGet ==
    /\ cmd = "teams"
    /\ pc = "teams_people"
    /\ \E status \in {Ok, ServerError, NoResponse}, data \in MemberPages :
        /\ reqs' = Append(reqs, Req("GET", "team_people", None, None,
                                    teams_list[idx].id, status))
        /\ IF status # Ok
           THEN /\ data = <<>>
                /\ out' = Append(out, Msg("error_teams", None))
                /\ pc' = "done"
                /\ idx' = idx
           ELSE /\ out' = out \o [i \in DOMAIN data |-> Msg("row", data[i].id)]
                /\ idx' = idx + 1
                /\ pc' = IF idx' > Len(teams_list) THEN "done" ELSE pc
    /\ UNCHANGED <<argVars, replayVars, clearVars, flattenVars, exc, page,
                   people_list, teams_list, fetched>>

\* next((r["id"] for r in records if r["attributes"]["name"] == name), None)
RECURSIVE FirstMatch(_, _)
FirstMatch(records, name) ==
    IF records = <<>> THEN None
    ELSE IF Head(records).name = name THEN Head(records).id
    ELSE FirstMatch(Tail(records), name)

\* A mutation of NotFound: the lookup's result is never tested.
NotFound_Never(id) == FALSE

\* "if not service_type_id" / "if not team_position_id"
NotFound(id) == id \in {None, ""}

\* results at the top of the while loop: a new call starts from [].
Acc == IF page = 0 THEN <<>> ELSE results

PagerTarget ==
    IF pc = "st_fetch" THEN "service_types"
    ELSE IF pc = "tp_fetch" THEN "team_positions" ELSE "assignments"

\* The page the upstream serves for the GET of the pager: any page of the pool
\* for the two name lookups, the next PerPage assignments it holds for step 3.
PagerData ==
    IF pc = "st_fetch" THEN ServiceTypePages
    ELSE IF pc = "tp_fetch" THEN TeamPositionPages
    ELSE {[i \in 1..Min(PerPage, Len(srv) - Len(Acc)) |->
              Rec(srv[Len(Acc) + i], "assignment")]}

PagerLinks ==
    IF pc = "as_fetch"
    THEN (IF Len(srv) > Len(Acc) + PerPage THEN {"next"} ELSE LastLinks)
    ELSE Links(page + 1 < MaxPages)

\* team_position from the return of get_paginated_results to its next request.
Returned(list, printed) ==
    /\ results' = list
    /\ IF pc = "st_fetch"
       THEN LET id == FirstMatch(list, service_type_name) IN
            IF NotFound(id)
            THEN /\ out' = Append(printed, Msg("service_type_not_found", None))
                 /\ pc' = "done"
                 /\ UNCHANGED <<service_type_id, team_position_id, assignments, idx, page>>
            ELSE /\ service_type_id' = id
                 /\ out' = printed
                 /\ pc' = "tp_fetch"
                 /\ page' = 0
                 /\ UNCHANGED <<team_position_id, assignments, idx>>
       ELSE IF pc = "tp_fetch"
       THEN LET id == FirstMatch(list, team_position_name) IN
            IF NotFound(id)
            THEN /\ out' = Append(printed, Msg("team_position_not_found", None))
                 /\ pc' = "done"
                 /\ UNCHANGED <<service_type_id, team_position_id, assignments, idx, page>>
            ELSE /\ team_position_id' = id
                 /\ out' = printed
                 /\ pc' = "as_fetch"
                 /\ page' = 0
                 /\ UNCHANGED <<service_type_id, assignments, idx>>
       ELSE /\ assignments' = list
            /\ idx' = 1
            /\ page' = page
            /\ UNCHANGED <<service_type_id, team_position_id>>
            /\ IF list = <<>>
               THEN /\ out' = Append(printed, Msg("all_removed", None))
                    /\ pc' = "done"
               ELSE /\ out' = printed
                    /\ pc' = "delete"

\* One pass of the while loop of get_paginated_results and, when the loop
\* ends, the code of team_position that follows the call.
PagedGet ==
    /\ cmd = "team_position"
    /\ pc \in {"st_fetch", "tp_fetch", "as_fetch"}
    /\ \E status \in {Ok, ServerError, NoResponse}, data \in PagerData, links \in PagerLinks :
        /\ reqs' = Append(reqs, Req("GET", PagerTarget,
                                    IF pc = "st_fetch" THEN None ELSE service_type_id,
                                    IF pc = "as_fetch" THEN team_position_id ELSE None,
                                    None, status))
        /\ IF status = NoResponse
           THEN /\ links = "null" /\ data = CHOOSE d \in PagerData : TRUE
                /\ exc' = "ConnectionError"
                /\ pc' = "raised"
                /\ results' = Acc
                /\ UNCHANGED <<out, page, service_type_id, team_position_id,
                               assignments, idx>>
           ELSE IF status # Ok
           THEN /\ links = "null" /\ data = CHOOSE d \in PagerData : TRUE
                /\ exc' = exc
                /\ Returned(Acc, Append(out, Msg("status_code", None)))
           ELSE IF links = "absent"
           THEN /\ exc' = "KeyError"          \* data["links"]
                /\ pc' = "raised"
                /\ results' = Acc \o data
                /\ UNCHANGED <<out, page, service_type_id, team_position_id,
                               assignments, idx>>
           ELSE IF links = "next"
           THEN /\ results' = Acc \o data
                /\ page' = page + 1
                /\ UNCHANGED <<exc, out, pc, service_type_id, team_position_id,
                               assignments, idx>>
           ELSE /\ exc' = exc
                /\ Returned(Acc \o data, out)
    /\ UNCHANGED <<argVars, replayVars, flattenVars, srv, people_list, teams_list, fetched>>

\* A mutation of AfterDelete: every other assignment is passed over.
AfterDelete_Skip(i, status) == i + 2

\* A mutation of AfterDelete: the loop is left at the first status that is not 204.
AfterDelete_Break(i, status) == IF status = NoContent THEN i + 1 ELSE Len(assignments) + 1

\* The index of the next pass of "for assignment in assignments": the loop
\* goes on whatever the status was.
AfterDelete(i, status) == i + 1

Remove(s, x) == SelectSeq(s, LAMBDA y : y # x)

\* One pass of the loop of step 4 and, after the last, the closing line.  The
\* upstream removes the assignment exactly when it answers 204.
Delete ==
    /\ cmd = "team_position"
    /\ pc = "delete"
    /\ \E status \in {NoContent, ServerError, NoResponse} :
        LET assignment_id == assignments[idx].id IN
        /\ reqs' = Append(reqs, Req("DELETE", "assignments", service_type_id,
                                    team_position_id, assignment_id, status))
        /\ IF status = NoResponse
           THEN /\ exc' = "ConnectionError"
                /\ pc' = "raised"
                /\ UNCHANGED <<out, idx, srv>>
           ELSE /\ exc' = exc
                /\ srv' = IF status = NoContent THEN Remove(srv, assignment_id) ELSE srv
                /\ idx' = AfterDelete(idx, status)
                /\ LET line == Msg(IF status = NoContent THEN "removed" ELSE "failed",
                                   assignment_id)
                   IN  IF idx' > Len(assignments)
                       THEN /\ out' = out \o <<line, Msg("all_removed", None)>>
                            /\ pc' = "done"
                       ELSE /\ out' = Append(out, line)
                            /\ pc' = pc
    /\ UNCHANGED <<argVars, replayVars, flattenVars, results, service_type_id,
                   team_position_id, assignments, page, people_list, teams_list, fetched>>

\* The run went through step 4 to the closing line of team_position.
Completed == pc = "done" /\ out # <<>> /\ Last(out).kind = "all_removed"

\* The command is invoked a second time with the same arguments; nothing but
\* the first run's own deletes has changed the upstream.
Replay ==
    /\ cmd = "team_position"
    /\ run = 1
    /\ pc \in {"done", "raised"}
    /\ run' = 2
    /\ prev' = [completed |-> Completed,
                 clean |-> Completed /\ \A i \in DOMAIN reqs :
                              reqs[i].target = "assignments" =>
                                  reqs[i].status = (IF reqs[i].m = "GET" THEN Ok ELSE NoContent),
                 removed |-> Len(SelectSeq(reqs, LAMBDA r : r.m = "DELETE" /\ r.status = NoContent))]
    /\ pc' = "start"
    /\ exc' = None
    /\ reqs' = <<>>
    /\ out' = <<>>
    /\ page' = 0
    /\ results' = <<>>
    /\ service_type_id' = None
    /\ team_position_id' = None
    /\ assignments' = <<>>
    /\ idx' = 0
    /\ UNCHANGED <<argVars, flattenVars, srv, people_list, teams_list, fetched>>

Next ==
    \/ Start
    \/ PeopleGet
    \/ PeoplePrint
    \/ TeamsGet
    \/ TeamPeopleGet
    \/ PagedGet
    \/ Delete
    \/ Replay

Spec == Init /\ [][Next]_vars

\* ------------------------------------------- the flattening on bounded inputs

FlattenInit ==
    /\ cmd = "flatten"
    /\ config = "ok"
    /\ limit = 0
    /\ run = 1
    /\ pc = "flatten"
    /\ exc = None
    /\ reqs = <<>>
    /\ out = <<>>
    /\ page = 0
    /\ people_list = <<>>
    /\ teams_list = <<>>
    /\ results = <<>>
    /\ service_type_id = None
    /\ team_position_id = None
    /\ assignments = <<>>
    /\ idx = 0
    /\ srv = <<>>
    /\ prev = NoRun
    /\ fetched = <<>>
    /\ included \in SeqsUpTo(IncludedPool, MaxIncluded)
    /\ \E ph \in RefSeqs("PhoneNumber"), em \in RefSeqs("Email"),
          ad \in RefSeqs("Address"), ho \in RefSeqs("Household") :
        /\ Len(ph) + Len(em) + Len(ad) + Len(ho) <= MaxRefs
        /\ person = MkPerson("p1", "Ann", ph, em, ad, ho)
    /\ flat = PersonInfo(NoPerson)

\* fetch_people flattens the person against the included array of its page.
FlattenPerson ==
    /\ pc = "flatten"
    /\ flat' = Flatten(person, included)
    /\ pc' = "flattened"
    /\ UNCHANGED <<argVars, replayVars, clearVars, person, included, exc, reqs, out,
                   page, people_list, teams_list, idx, fetched>>

SpecFlatten == FlattenInit /\ [][FlattenPerson]_vars

\* ------------------------------------------------------------------ claims

Deletes == SelectSeq(reqs, LAMBDA r : r.m = "DELETE")
Printed(kind) == Len(SelectSeq(out, LAMBDA m : m.kind = kind))
Answered(status) == Len(SelectSeq(Deletes, LAMBDA r : r.status = status))

\* C1: for every limit N the CLI accepts, the list fetch_people (fetch_teams)
\* returns has at most N records and is the first N records, in order, of the
\* concatenation of the data arrays of the pages fetched (for a negative N,
\* which no list can satisfy, read as: it has no record).
C1_LimitedPrefix ==
    /\ (cmd = "people" /\ pc = "people_print") =>
           /\ Len(people_list) <= Max(limit, 0)
           /\ Ids(people_list) = Take(fetched, limit)
    /\ (cmd = "teams" /\ out # <<>> /\ out[1].kind = "header") =>
           /\ Len(teams_list) <= Max(limit, 0)
           /\ Ids(teams_list) = Take(fetched, limit)

\* C2: in step 4 of clear team-position there is one DELETE per assignment, in
\* fetched order; each 204 prints one success line and each other status one
\* failure line; a status other than 204 does not end the loop; and the
\* command raises only when a DELETE got no response at all.
C2_DeleteBatch ==
    cmd = "team_position" =>
        /\ \A i \in DOMAIN Deletes : i <= Len(assignments) /\ Deletes[i].id = assignments[i].id
        /\ Printed("removed") = Answered(NoContent)
        /\ Printed("failed") = Len(Deletes) - Answered(NoContent) - Answered(NoResponse)
        /\ pc = "delete" => Len(Deletes) = idx - 1 /\ idx <= Len(assignments)
        /\ Completed => Len(Deletes) = Len(assignments)
        /\ (pc = "raised" /\ Deletes # <<>>) =>
               /\ Last(Deletes).status = NoResponse
               /\ Answered(NoResponse) = 1
        /\ (pc = "done" /\ Deletes # <<>>) => Completed /\ Answered(NoResponse) = 0

\* C2 witness: three assignments, the first DELETE refused and the later ones
\* still issued, one of them answered 204; the command has ended normally.
C2_Witness ==
    /\ cmd = "team_position" /\ Completed
    /\ Len(assignments) = 3 /\ Len(Deletes) = 3
    /\ Deletes[1].status = ServerError /\ Deletes[2].status = NoContent
    /\ Deletes[3].status = ServerError
    /\ Printed("removed") = 1 /\ Printed("failed") = 2

\* C3: with the configuration file missing or lacking client_id or
\* client_secret, the command ends at load_authentication and no request,
\* GET or DELETE, is ever issued.
C3_NoRequestOnBadConfig ==
    (cmd \in {"people", "teams", "team_position"} /\ config # "ok") =>
        /\ reqs = <<>>
        /\ pc \in {"start", "done", "raised"}

\* C3 witness: clear team-position ended on the ValueError of a file without
\* client_secret, before any request.
C3_Witness ==
    /\ cmd = "team_position" /\ config = "no_client_secret"
    /\ pc = "raised" /\ exc = "ValueError" /\ reqs = <<>>

\* C4: in get people and get teams, once a GET has failed the command has
\* ended and has printed neither the header nor a row, only the error.
C4_NoPartialOutput ==
    (cmd \in {"people", "teams"} /\ \E i \in DOMAIN reqs : reqs[i].status # Ok) =>
        /\ pc = "done"
        /\ Printed("header") = 0 /\ Printed("row") = 0
        /\ Len(out) = 1

Stage(r) ==
    IF r.m = "DELETE" THEN 4
    ELSE IF r.target = "service_types" THEN 1
    ELSE IF r.target = "team_positions" THEN 2 ELSE 3

\* id is the id of the first record of list that has exactly this name.
IsFirstNamed(list, name, id) ==
    \E i \in DOMAIN list :
        /\ list[i].name = name /\ list[i].id = id
        /\ \A j \in 1..(i - 1) : list[j].name # name

\* C5: clear team-position asks for service types, then team positions, then
\* assignments, then deletes; it goes past a lookup only with the id of the
\* first record of exactly the given name; when no fetched record has the
\* name it prints the not-found line and ends with no later request; and each
\* DELETE names the resolved service type and position and an assignment that
\* step 3 returned.
C5_LookupsInOrder ==
    cmd = "team_position" =>
        /\ \A i, j \in DOMAIN reqs : i < j => Stage(reqs[i]) <= Stage(reqs[j])
        /\ (pc = "tp_fetch" /\ page = 0) =>
               IsFirstNamed(results, service_type_name, service_type_id)
        /\ (pc = "as_fetch" /\ page = 0) =>
               IsFirstNamed(results, team_position_name, team_position_id)
        /\ \A i \in DOMAIN reqs :
               /\ Stage(reqs[i]) >= 2 => service_type_id # None /\ reqs[i].st = service_type_id
               /\ Stage(reqs[i]) >= 3 => team_position_id # None /\ reqs[i].tp = team_position_id
               /\ Stage(reqs[i]) = 4 => \E k \in DOMAIN assignments : assignments[k].id = reqs[i].id
        /\ (pc = "done" /\ service_type_id = None) =>
               /\ out # <<>> /\ Last(out).kind = "service_type_not_found"
               /\ \A i \in DOMAIN reqs : Stage(reqs[i]) = 1
        /\ (pc = "done" /\ service_type_id # None /\ team_position_id = None) =>
               /\ out # <<>> /\ Last(out).kind = "team_position_not_found"
               /\ \A i \in DOMAIN reqs : Stage(reqs[i]) <= 2
        /\ (pc = "done" /\ team_position_id # None) => Completed

\* C5 witness: the service type was found; the positions fetched have other
\* names only ("Drums 2"), and the command ended on the not-found line.
C5_Witness ==
    /\ cmd = "team_position" /\ pc = "done"
    /\ service_type_id = "st3" /\ team_position_id = None
    /\ results = <<Rec("tp2", "Drums 2"), Rec("tp2", "Drums 2")>>
    /\ Last(out).kind = "team_position_not_found"
    /\ Deletes = <<>>

Relationship(rel_type) ==
    LET i == CHOOSE k \in DOMAIN person.relationships :
                 person.relationships[k].rel_type = rel_type
    IN  person.relationships[i].data

\* The reference's id is the id of a record of the included array, and the
\* record the id stands for.
Present(ref) == \E i \in DOMAIN included : included[i].id = ref.id
Resolved(ref) == IncludedData(included)[ref.id]

\* The attributes of the last reference of the addresses relationship that
\* resolves to a record of this location, or no attributes when there is none.
LastAddress(location) ==
    LET refs == Relationship("addresses")
        at == {i \in DOMAIN refs : /\ Present(refs[i])
                                   /\ Resolved(refs[i]).attributes.location = location}
    IN  IF at = {} THEN [none |-> None]
        ELSE Resolved(refs[CHOOSE i \in at : \A j \in at : j <= i]).attributes

\* C7: the four home_* fields are those of the last resolved address whose
\* location is exactly "Home", and the four work_* fields those of the last
\* whose location is exactly "Work"; a field that address lacks is None, and
\* neither group is touched by an address of the other location.
C7_LastAddressWins ==
    (pc = "flattened" /\ flat.exc = None) =>
        LET home == LastAddress("Home")
            work == LastAddress("Work")
        IN  /\ flat.home_street = Attr(home, "street") /\ flat.home_city = Attr(home, "city")
            /\ flat.home_state = Attr(home, "state") /\ flat.home_zip = Attr(home, "zip")
            /\ flat.work_street = Attr(work, "street") /\ flat.work_city = Attr(work, "city")
            /\ flat.work_state = Attr(work, "state") /\ flat.work_zip = Attr(work, "zip")

\* C7 witness: two Home addresses, the full one first and then one with a
\* street only: the street is the second one's and the city is cleared.
C7_Witness ==
    /\ pc = "flattened" /\ flat.exc = None
    /\ Ids(Relationship("addresses")) = <<"1", "2">>
    /\ included = <<HomeFull("1"), HomeBare("2")>>
    /\ flat.home_street = "2 Oak Ave" /\ flat.home_city = None
    /\ flat.work_street = None

\* The person without the references whose id is not in the included array.
StripUnresolved(p) ==
    [p EXCEPT !.relationships =
        [k \in DOMAIN @ |->
            Rel(@[k].rel_type, SelectSeq(@[k].data, Present))]]

ValuesOf(rel_type, key) ==
    LET refs == SelectSeq(Relationship(rel_type), Present)
    IN  [i \in DOMAIN refs |-> Resolved(refs[i]).attributes[key]]

\* C8: a reference whose id is not in the page's included array raises
\* nothing and leaves no trace: the flattening yields what it yields for the
\* person without those references, and the phone numbers and emails are
\* those of the resolved references, in the order of the relationship array.
C8_UnresolvedSkipped ==
    pc = "flattened" =>
        /\ flat = Flatten(StripUnresolved(person), included)
        /\ flat.exc = None =>
               /\ flat.phone_numbers = ValuesOf("phone_numbers", "number")
               /\ flat.emails = ValuesOf("emails", "address")

\* C8 witness: phone references 1 and 2 with only phone 2 included: the one
\* number listed is phone 2's.
C8_Witness ==
    /\ pc = "flattened" /\ flat.exc = None
    /\ Ids(Relationship("phone_numbers")) = <<"1", "2">>
    /\ included = <<Phone("2")>>
    /\ flat.phone_numbers = <<"555-0002">>
    /\ flat.household_count = 0

\* C9: a phone_numbers, emails or addresses reference resolves only to an
\* included record whose id and type are both its own.
C9_CompositeKey ==
    pc = "flattened" =>
        \A rel_type \in {"phone_numbers", "emails", "addresses"} :
            \A i \in DOMAIN Relationship(rel_type) :
                LET ref == Relationship(rel_type)[i] IN
                Present(ref) => Resolved(ref).type = ref.type

\* C10: get_paginated_results never raises on a response: whenever the
\* command has ended on an exception after a GET, that GET got no response.
C10_PagerNeverRaises ==
    (cmd = "team_position" /\ pc = "raised" /\ reqs # <<>> /\ Last(reqs).m = "GET") =>
        Last(reqs).status = NoResponse

====
